---- MODULE Spec2Model ----
(***************************************************************************)
(* Property Document Verifier: the upload_document request pipeline        *)
(* (app/main.py), the file handler (app/utils/file_handler.py), the VLM    *)
(* processor (app/vlm_processor.py) and the LLM reasoner                   *)
(* (app/llm_reasoner.py).                                                  *)
(*                                                                         *)
(* Python strings that the code inspects character by character (file      *)
(* names, the LLM reply, the strings the reply is cut into) are sequences  *)
(* of one-character strings.  Strings the code only stores and compares    *)
(* (dictionary keys, document types, extracted field values) are TLA+      *)
(* strings.  A dict is a function whose DOMAIN is its key set; the empty   *)
(* dict and the empty list are both << >>.                                 *)
(***************************************************************************)
EXTENDS Integers, Sequences, FiniteSets, TLC

\* Largest number of segments an LLM reply of the model is made of.
MaxSegments == 2

-----------------------------------------------------------------------------
(* Python built-ins on strings *)

UpperCase ==
    <<"A", "B", "C", "D", "E", "F", "G", "H", "I", "J", "K", "L", "M",
      "N", "O", "P", "Q", "R", "S", "T", "U", "V", "W", "X", "Y", "Z">>

LowerCase ==
    <<"a", "b", "c", "d", "e", "f", "g", "h", "i", "j", "k", "l", "m",
      "n", "o", "p", "q", "r", "s", "t", "u", "v", "w", "x", "y", "z">>

Digits ==
    <<"0", "1", "2", "3", "4", "5", "6", "7", "8", "9">>

\* The characters str.strip() removes when called without an argument.
Whitespace ==
    {" ", "\n", "\t", "\r", "\f"}

Min(S) ==
    CHOOSE x \in S : \A y \in S : x <= y

Max(S) ==
    CHOOSE x \in S : \A y \in S : x >= y

\* One character of str.lower(), and of a comparison under re.IGNORECASE.
LowerChar(c) ==
    IF \E i \in 1..26 : UpperCase[i] = c
    THEN LowerCase[CHOOSE i \in 1..26 : UpperCase[i] = c]
    ELSE c

\* str.lower()
lower(s) ==
    [i \in 1..Len(s) |-> LowerChar(s[i])]

\* str.endswith(suffix)
endswith(s, suffix) ==
    /\ Len(suffix) <= Len(s)
    /\ \A k \in 1..Len(suffix) : s[Len(s) - Len(suffix) + k] = suffix[k]

\* str.strip(chars): drops the leading and the trailing characters in chars.
strip_chars(s, chars) ==
    LET keep == {i \in 1..Len(s) : s[i] \notin chars}
    IN  IF keep = {} THEN << >> ELSE SubSeq(s, Min(keep), Max(keep))

\* str.strip()
strip(s) ==
    strip_chars(s, Whitespace)

\* str.split(sep) for a one-character separator: the pieces between the
\* separators, empty pieces included; one piece more than separators.
split(s, sep) ==
    LET cuts  == {i \in 1..Len(s) : s[i] = sep}
        marks == cuts \cup {0, Len(s) + 1}
        next(i) == Min({j \in marks : j > i})
        RECURSIVE pieces(_)
        pieces(i) ==
            IF i = Len(s) + 1 THEN << >>
            ELSE <<SubSeq(s, i + 1, next(i) - 1)>> \o pieces(next(i))
    IN  pieces(0)

\* \d of the re module, on the characters of the model.
IsDigit(c) ==
    \E d \in 1..10 : Digits[d] = c

DigitValue(c) ==
    (CHOOSE d \in 1..10 : Digits[d] = c) - 1

\* float(str) of a string of decimal digits (the value is a whole number).
RECURSIVE float(_)
float(ds) ==
    IF ds = << >> THEN 0
    ELSE 10 * float(SubSeq(ds, 1, Len(ds) - 1)) + DigitValue(ds[Len(ds)])

\* dict.get(key, default)
get(d, key, default) ==
    IF key \in DOMAIN d THEN d[key] ELSE default

\* {**a, **b}, the result of a.update(b)
update(a, b) ==
    [k \in (DOMAIN a) \cup (DOMAIN b) |-> IF k \in DOMAIN b THEN b[k] ELSE a[k]]

-----------------------------------------------------------------------------
(* app/utils/file_handler.py *)

\* FileHandler.upload_dir
upload_dir ==
    "uploads"

\* FileHandler.allowed_extensions
allowed_extensions ==
    {<<".", "p", "d", "f">>, <<".", "j", "p", "g">>, <<".", "j", "p", "e", "g">>, <<".", "p", "n", "g">>}

\* FileHandler.is_valid_file: a None or empty name is refused, any other name
\* is accepted when its lower-cased form ends in an allowed extension.
is_valid_file(filename) ==
    IF filename = << >> THEN FALSE
    ELSE \E ext \in allowed_extensions : endswith(lower(filename), ext)

\* os.path.splitext(p)[1]: the extension starts at the last dot after the
\* last "/", unless only dots precede that dot in the file name.
splitext_ext(p) ==
    LET seps     == {i \in 1..Len(p) : p[i] = "/"}
        sepIndex == IF seps = {} THEN 0 ELSE Max(seps)
        dots     == {i \in 1..Len(p) : p[i] = "."}
        dotIndex == IF dots = {} THEN 0 ELSE Max(dots)
    IN  IF /\ dotIndex > sepIndex
           /\ \E i \in (sepIndex + 1)..(dotIndex - 1) : p[i] # "."
        THEN SubSeq(p, dotIndex, Len(p))
        ELSE << >>

\* document_type.replace(" ", "_") on the document types of the model
replace_spaces(document_type) ==
    CASE document_type = "Rent Agreement" -> "Rent_Agreement"
      [] document_type = "Title Deed"     -> "Title_Deed"
      [] OTHER                            -> document_type

\* The path FileHandler.save_file writes to:
\* upload_dir / document_type with "_" for " " / uuid4 + the original extension.
save_path(filename, document_type, uuid) ==
    [dir  |-> <<upload_dir, replace_spaces(document_type)>>,
     name |-> uuid \o splitext_ext(filename)]

-----------------------------------------------------------------------------
(* app/vlm_processor.py *)

\* The OCR text is a record: words is the length of text.split(), and found
\* maps the name of each field pattern that re.search matches in the text to
\* the text of its capture group(s), stripped.

\* max_length of _process_with_layoutlm
max_length == 512

\* len(chunks) of _process_with_layoutlm: range(0, len(words), max_length)
chunks_processed(text) ==
    (text.words + max_length - 1) \div max_length

\* file_path.lower().endswith('.pdf') of extract_document_data
is_pdf_path(file_path) ==
    endswith(lower(file_path.name), <<".", "p", "d", "f">>)

\* The fields dict built from the patterns `keys` that match.
matched_fields(text, keys) ==
    [k \in (DOMAIN text.found) \cap keys |-> text.found[k]]

\* VLMProcessor._extract_rent_agreement_fields: one pattern sets landlord and
\* tenant together; rent_amount and security_deposit get a "$" prefix.
_extract_rent_agreement_fields(text) ==
    LET m      == text.found
        simple == matched_fields(text, {"property_address", "term", "rent_due_date"})
        pair   == IF "landlord_tenant" \in DOMAIN m
                  THEN [landlord |-> m["landlord_tenant"][1],
                        tenant   |-> m["landlord_tenant"][2]]
                  ELSE << >>
        money  == [k \in (DOMAIN m) \cap {"rent_amount", "security_deposit"}
                     |-> "$" \o m[k]]
    IN  update(update(pair, simple), money)

\* VLMProcessor._extract_title_deed_fields
_extract_title_deed_fields(text) ==
    matched_fields(text, {"owner", "property_details"})

\* VLMProcessor._extract_noc_fields
_extract_noc_fields(text) ==
    matched_fields(text, {"applicant", "purpose"})

\* VLMProcessor._extract_document_fields
_extract_document_fields(text, document_type) ==
    IF document_type = "Rent Agreement" THEN _extract_rent_agreement_fields(text)
    ELSE IF document_type = "Title Deed" THEN _extract_title_deed_fields(text)
    ELSE IF document_type = "NOC" THEN _extract_noc_fields(text)
    ELSE << >>

\* VLMProcessor._extract_layout_features: the two flags come from the image
\* (contour areas, red/blue pixel counts), image_dimensions is image.size.
_extract_layout_features(signature_detected, stamp_detected) ==
    [signature_detected |-> signature_detected,
     stamp_detected     |-> stamp_detected,
     image_dimensions   |-> <<800, 1200>>]

\* The dict extract_document_data returns.
extracted_data_of(text, layout, structured, document_type) ==
    [raw_text         |-> text,
     layout_data      |-> layout,
     structured_data  |-> structured,
     extracted_fields |-> _extract_document_fields(text, document_type),
     document_type    |-> document_type]

-----------------------------------------------------------------------------
(* app/llm_reasoner.py *)

DocumentTypes ==
    {"Rent Agreement", "Title Deed", "NOC"}

\* LLMReasoner._create_analysis_prompt: `prompt` is assigned in the three
\* branches only, so any other document type ends in UnboundLocalError.
_create_analysis_prompt(extracted_data, document_type) ==
    IF document_type \in DocumentTypes
    THEN [ok    |-> TRUE,
          value |-> [document_type    |-> document_type,
                     raw_text         |-> get(extracted_data, "raw_text", << >>),
                     extracted_fields |-> get(extracted_data, "extracted_fields", << >>),
                     layout_data      |-> get(extracted_data, "layout_data", << >>)]]
    ELSE [ok    |-> FALSE,
          value |-> <<"local variable 'prompt' referenced before assignment">>]

\* The section names _parse_llm_response asks for.
BENEFITS ==
    <<"B", "E", "N", "E", "F", "I", "T", "S">>

RISKS ==
    <<"R", "I", "S", "K", "S">>

\* The alternatives of the lookahead (?=RISKS:|COMPLETENESS:|SUMMARY:|$)
SectionStops ==
    {<<"R", "I", "S", "K", "S", ":">>, <<"C", "O", "M", "P", "L", "E", "T", "E", "N", "E", "S", "S", ":">>, <<"S", "U", "M", "M", "A", "R", "Y", ":">>}

\* A literal of the pattern matches at position i of s, under re.IGNORECASE.
matches_at(s, i, literal) ==
    /\ i + Len(literal) - 1 <= Len(s)
    /\ \A k \in 1..Len(literal) : LowerChar(s[i + k - 1]) = LowerChar(literal[k])

\* $ without re.MULTILINE: the end of the string, or just before a final "\n".
at_end(s, j) ==
    \/ j = Len(s) + 1
    \/ j = Len(s) /\ s[j] = "\n"

\* The lookahead of the section pattern holds at position j.
lookahead(s, j) ==
    \/ \E stop \in SectionStops : matches_at(s, j, stop)
    \/ at_end(s, j)

\* LLMReasoner._extract_section: re.search of
\* f"{section_name}:(.+?)(?=RISKS:|COMPLETENESS:|SUMMARY:|$)" with DOTALL and
\* IGNORECASE. The leftmost "name:" followed by at least one character
\* matches; group(1) is the shortest non-empty text after it that ends where
\* the lookahead holds. The group is stripped, split into lines, blank lines
\* are dropped, "- " is stripped from each line, and lines of at most 10
\* characters are dropped.
_extract_section(response, section_name) ==
    LET head   == section_name \o <<":">>
        starts == {i \in 1..Len(response) :
                      /\ matches_at(response, i, head)
                      /\ i + Len(head) <= Len(response)}
    IN  IF starts = {} THEN << >>
        ELSE
          LET from    == Min(starts) + Len(head)
              to      == Min({j \in (from + 1)..(Len(response) + 1) :
                                 lookahead(response, j)})
              content == strip(SubSeq(response, from, to - 1))
              lines   == split(content, "\n")
              kept    == SelectSeq(lines, LAMBDA item : strip(item) # << >>)
              items   == [n \in 1..Len(kept) |->
                              strip(strip_chars(kept[n], {"-", " "}))]
          IN  SelectSeq(items, LAMBDA item : Len(item) > 10)

\* The last digit of the run of digits that starts at position i.
run_end(s, i) ==
    Max({e \in i..Len(s) : \A k \in i..e : IsDigit(s[k])})

\* The default of _extract_completeness
DefaultCompleteness == 75

\* LLMReasoner._extract_completeness: re.findall(r"(\d+)%") and the first
\* match, which is the leftmost run of digits that a "%" follows.
_extract_completeness(response) ==
    LET hits == {i \in 1..Len(response) :
                    /\ IsDigit(response[i])
                    /\ run_end(response, i) < Len(response)
                    /\ response[run_end(response, i) + 1] = "%"}
    IN  IF hits # {}
        THEN float(SubSeq(response, Min(hits), run_end(response, Min(hits))))
        ELSE DefaultCompleteness

\* A variant of SummaryFields whose NOC branch repeats the Title Deed keys.
SummaryFields_copy_paste(document_type) ==
    IF document_type = "Rent Agreement"
    THEN [landlord        |-> "landlord",
          tenant          |-> "tenant",
          propertyAddress |-> "property_address",
          term            |-> "term",
          rentAmount      |-> "rent_amount"]
    ELSE IF document_type \in {"Title Deed", "NOC"}
    THEN [owner           |-> "owner",
          propertyDetails |-> "property_details"]
    ELSE << >>

\* The type-specific part of the summary: summary key -> extracted field key.
SummaryFields(document_type) ==
    IF document_type = "Rent Agreement"
    THEN [landlord        |-> "landlord",
          tenant          |-> "tenant",
          propertyAddress |-> "property_address",
          term            |-> "term",
          rentAmount      |-> "rent_amount"]
    ELSE IF document_type = "Title Deed"
    THEN [owner           |-> "owner",
          propertyDetails |-> "property_details"]
    ELSE IF document_type = "NOC"
    THEN [applicant       |-> "applicant",
          purpose         |-> "purpose"]
    ELSE << >>

\* A variant of _create_summary that looks the fields up under the summary's
\* own (camelCase) keys.
_create_summary_camel_keys(extracted_data, document_type) ==
    LET fields  == get(extracted_data, "extracted_fields", << >>)
        layout  == get(extracted_data, "layout_data", << >>)
        summary == [signaturePresent  |-> get(layout, "signature_detected", FALSE),
                    stampDutyDetected |-> get(layout, "stamp_detected", FALSE),
                    documentType      |-> document_type]
        keys    == SummaryFields(document_type)
    IN  update(summary,
               [k \in DOMAIN keys |-> get(fields, k, "Not detected")])

\* A variant of _create_summary that reads the two layout flags crosswise.
_create_summary_swapped_flags(extracted_data, document_type) ==
    LET fields  == get(extracted_data, "extracted_fields", << >>)
        layout  == get(extracted_data, "layout_data", << >>)
        summary == [signaturePresent  |-> get(layout, "stamp_detected", FALSE),
                    stampDutyDetected |-> get(layout, "signature_detected", FALSE),
                    documentType      |-> document_type]
        keys    == SummaryFields(document_type)
    IN  update(summary,
               [k \in DOMAIN keys |-> get(fields, keys[k], "Not detected")])

\* LLMReasoner._create_summary
_create_summary(extracted_data, document_type) ==
    LET fields  == get(extracted_data, "extracted_fields", << >>)
        layout  == get(extracted_data, "layout_data", << >>)
        summary == [signaturePresent  |-> get(layout, "signature_detected", FALSE),
                    stampDutyDetected |-> get(layout, "stamp_detected", FALSE),
                    documentType      |-> document_type]
        keys    == SummaryFields(document_type)
    IN  update(summary,
               [k \in DOMAIN keys |-> get(fields, keys[k], "Not detected")])

\* The literals of _create_fallback_response
FallbackBenefits ==
    <<<<"D", "o", "c", "u", "m", "e", "n", "t", " ", "u", "p", "l", "o", "a", "d", "e", "d", " ", "s", "u", "c", "c", "e", "s", "s", "f", "u", "l", "l", "y">>,
      <<"B", "a", "s", "i", "c", " ", "i", "n", "f", "o", "r", "m", "a", "t", "i", "o", "n", " ", "e", "x", "t", "r", "a", "c", "t", "e", "d">>>>

FallbackRisks ==
    <<<<"U", "n", "a", "b", "l", "e", " ", "t", "o", " ", "p", "e", "r", "f", "o", "r", "m", " ", "d", "e", "t", "a", "i", "l", "e", "d", " ", "a", "n", "a", "l", "y", "s", "i", "s">>,
      <<"M", "a", "n", "u", "a", "l", " ", "r", "e", "v", "i", "e", "w", " ", "r", "e", "c", "o", "m", "m", "e", "n", "d", "e", "d">>>>

\* A variant of _create_fallback_response without the confidence_score key.
_create_fallback_response_no_confidence(extracted_data, document_type) ==
    [summary            |-> _create_summary(extracted_data, document_type),
     benefits           |-> FallbackBenefits,
     risks              |-> FallbackRisks,
     completeness_score |-> 60]

FallbackCompleteness == 60

FallbackConfidence == 60

\* LLMReasoner._create_fallback_response. Scores: completeness_score is the
\* percentage, confidence_score is in hundredths (60 is 0.60).
_create_fallback_response(extracted_data, document_type) ==
    [summary            |-> _create_summary(extracted_data, document_type),
     benefits           |-> FallbackBenefits,
     risks              |-> FallbackRisks,
     completeness_score |-> FallbackCompleteness,
     confidence_score   |-> FallbackConfidence]

\* A variant of confidence_of without the lower limit: min(0.95, completeness / 100)
confidence_of_no_floor(completeness) ==
    Min({95, completeness})

\* min(0.95, max(0.60, completeness / 100)), in hundredths
confidence_of(completeness) ==
    Min({95, Max({60, completeness})})

\* A variant of _parse_llm_response whose except clause answers with empty
\* sections and the default score instead of the fallback.
_parse_llm_response_no_fallback(response, document_type, extracted_data) ==
    LET text         == IF response.kind = "str" THEN response.text ELSE << >>
        completeness == _extract_completeness(text)
    IN  [summary            |-> _create_summary(extracted_data, document_type),
         benefits           |-> _extract_section(text, BENEFITS),
         risks              |-> _extract_section(text, RISKS),
         completeness_score |-> completeness,
         confidence_score   |-> confidence_of(completeness)]

\* LLMReasoner._parse_llm_response. The reply is [kind, text]: re.search
\* raises TypeError for a reply that is no string, and the except clause
\* answers with the fallback.
_parse_llm_response(response, document_type, extracted_data) ==
    IF response.kind = "str"
    THEN LET completeness == _extract_completeness(response.text)
         IN  [summary            |-> _create_summary(extracted_data, document_type),
              benefits           |-> _extract_section(response.text, BENEFITS),
              risks              |-> _extract_section(response.text, RISKS),
              completeness_score |-> completeness,
              confidence_score   |-> confidence_of(completeness)]
    ELSE _create_fallback_response(extracted_data, document_type)

-----------------------------------------------------------------------------
(* Exceptions and the except clauses *)

Exception(msg) ==
    [type |-> "Exception", status_code |-> 0, detail |-> msg]

HTTPException(status_code, detail) ==
    [type |-> "HTTPException", status_code |-> status_code, detail |-> detail]

\* str(e): the message of an Exception; "<status>: <detail>" of an
\* HTTPException.
str(e) ==
    IF e.type = "HTTPException"
    THEN <<ToString(e.status_code), ": ">> \o e.detail
    ELSE e.detail

\* FileHandler.save_file, except clause
save_file_except(e) ==
    Exception(<<"File save error: ">> \o str(e))

\* VLMProcessor.extract_document_data, except clause
extract_document_data_except(e) ==
    Exception(<<"VLM processing error: ">> \o str(e))

\* VLMProcessor._process_with_layoutlm, except clause: the error is returned
\* as the result, not raised.
_process_with_layoutlm_except(e) ==
    [error |-> str(e)]

\* LLMReasoner._query_ollama, except clause
_query_ollama_except(e) ==
    Exception(<<"Ollama query error: ">> \o str(e))

\* LLMReasoner.analyze_document, except clause
analyze_document_except(e) ==
    Exception(<<"LLM analysis error: ">> \o str(e))

\* upload_document, except clause: every Exception raised in the try block,
\* the HTTPException of the validation included, becomes an HTTPException 500.
upload_document_except(e) ==
    HTTPException(500, <<"Processing error: ">> \o str(e))

\* The HTTP response FastAPI sends for an HTTPException.
error_response(e) ==
    [status_code |-> e.status_code, detail |-> e.detail]

\* The JSONResponse of upload_document.
success_response(document_type, filename, now, analysis_result) ==
    [status_code |-> 200,
     content     |-> [documentType |-> document_type,
                      filename     |-> filename,
                      uploadTime   |-> now,
                      analysis     |-> analysis_result,
                      status       |-> "success"]]

-----------------------------------------------------------------------------
(* The inputs of the model *)

\* File names a client uploads: "lease.pdf", "SCAN.PDF", "deed.jpeg",
\* "notes.txt", ".pdf" and the empty name.
FileNames ==
    {<<"l", "e", "a", "s", "e", ".", "p", "d", "f">>,
     <<"S", "C", "A", "N", ".", "P", "D", "F">>,
     <<"d", "e", "e", "d", ".", "j", "p", "e", "g">>,
     <<"n", "o", "t", "e", "s", ".", "t", "x", "t">>,
     <<".", "p", "d", "f">>,
     << >>}

\* Document types a client sends: the three supported ones and another one.
RequestTypes ==
    DocumentTypes \cup {"Sale Deed"}

\* Values of uuid.uuid4()
UUIDs ==
    {<<"5", "f", "0", "c">>, <<"a", "7", "1", "e">>}

\* Values of datetime.now().isoformat()
Clock ==
    {"2024-05-01T10:00:00"}

\* OCR results: see the comment on the OCR text above.
Texts ==
    {[words |-> 0, found |-> << >>],
     [words |-> 120,
      found |-> [landlord_tenant  |-> <<"Ramesh Sharma", "Vaibhav Kulkarni">>,
                 property_address |-> "Flat 4B, Krishna Tower",
                 term             |-> "11 months",
                 rent_amount      |-> "22,000",
                 security_deposit |-> "44,000",
                 rent_due_date    |-> "5th day",
                 applicant        |-> "Ramesh Sharma"]],
     [words |-> 600,
      found |-> [owner            |-> "John Smith",
                 property_details |-> "House No. 123, ABC Street",
                 purpose          |-> "Construction of additional floor"]],
     [words |-> 40,
      found |-> [term      |-> "11 months",
                 owner     |-> "Municipal Corporation",
                 applicant |-> "Sarah Johnson"]]}

\* The segments LLM replies are made of.
SegBenefits ==
    <<"B", "E", "N", "E", "F", "I", "T", "S", ":", "\n", "-", " ", "1", "0", "0", "%", " ", "l", "e", "g", "a", "l", " ", "t", "e", "r", "m", "s", "\n">>

SegRisksSignature ==
    <<"R", "I", "S", "K", "S", ":", "\n", "-", " ", "N", "o", " ", "s", "i", "g", "n", "a", "t", "u", "r", "e", "\n">>

SegRisksShort ==
    <<"R", "I", "S", "K", "S", ":", "\n", "-", " ", "N", "o", " ", "w", "i", "t", "n", "e", "s", "s", "\n">>

SegRisksLower ==
    <<"r", "i", "s", "k", "s", ":", " ", "s", "t", "a", "m", "p", " ", "d", "u", "t", "y", " ", "u", "n", "p", "a", "i", "d", "\n">>

SegRisksBare ==
    <<"R", "I", "S", "K", "S", ":">>

SegCompleteness ==
    <<"C", "O", "M", "P", "L", "E", "T", "E", "N", "E", "S", "S", ":", " ", "8", "5", "%", "\n">>

SegCompletenessOver ==
    <<"C", "O", "M", "P", "L", "E", "T", "E", "N", "E", "S", "S", ":", " ", "1", "5", "0", "%", "\n">>

SegCompletenessLow ==
    <<"C", "o", "m", "p", "l", "e", "t", "e", "n", "e", "s", "s", ":", " ", "4", "0", "%">>

SegSummary ==
    <<"S", "U", "M", "M", "A", "R", "Y", ":", " ", "7", " ", "o", "f", " ", "1", "0", " ", "c", "l", "a", "u", "s", "e", "s", "\n">>

Segments ==
    {SegBenefits, SegRisksSignature, SegRisksShort, SegRisksLower, SegRisksBare,
     SegCompleteness, SegCompletenessOver, SegCompletenessLow, SegSummary}

\* The texts made of at most n segments.
RECURSIVE Texts_of(_)
Texts_of(n) ==
    IF n = 0 THEN {<< >>}
    ELSE LET shorter == Texts_of(n - 1)
         IN  shorter \cup {s \o seg : s \in shorter, seg \in Segments}

\* response.json()["response"]: a string, or a JSON value that is no string.
StrReply(s) ==
    [kind |-> "str", text |-> s]

NullReply ==
    [kind |-> "null", text |-> << >>]

\* The replies of the LLM server in the direct calls of analyze_document.
Replies ==
    {StrReply(s) : s \in Texts_of(MaxSegments)} \cup {NullReply}

\* The replies of the LLM server in the upload requests.
UploadReplies ==
    {StrReply(s) : s \in Texts_of(1)}
      \cup {StrReply(SegBenefits \o SegRisksSignature \o SegCompleteness \o SegSummary),
            NullReply}

\* The ways the exchange with the LLM server fails: requests.post raises,
\* raise_for_status raises, the body has no "response" key.
QueryFailures ==
    {<<"ConnectionError">>, <<"500 Server Error">>, <<"'response'">>}

\* extracted_data dicts handed to analyze_document directly, as the tests do.
DirectLayouts ==
    {[signature_detected |-> s, stamp_detected |-> d, image_dimensions |-> <<800, 1200>>] :
        s \in BOOLEAN, d \in BOOLEAN}
      \cup {[signature_detected |-> FALSE], [stamp_detected |-> TRUE], << >>}

FullFields ==
    [landlord |-> "Ramesh Sharma", tenant |-> "Vaibhav Kulkarni",
     property_address |-> "Flat 4B, Krishna Tower", term |-> "11 months",
     rent_amount |-> "$22,000", owner |-> "John Smith",
     property_details |-> "House No. 123, ABC Street",
     applicant |-> "Sarah Johnson", purpose |-> "Construction of additional floor"]

PartialFields ==
    [term |-> "11 months", owner |-> "John Smith", applicant |-> "Sarah Johnson",
     security_deposit |-> "$44,000"]

DirectData ==
    {[raw_text |-> "TITLE DEED", layout_data |-> l, extracted_fields |-> FullFields] :
        l \in DirectLayouts}
      \cup {[raw_text |-> "RENT AGREEMENT", extracted_fields |-> PartialFields],
            [raw_text         |-> "NO OBJECTION CERTIFICATE",
             layout_data      |-> [signature_detected |-> FALSE, stamp_detected |-> FALSE],
             extracted_fields |-> << >>],
            [layout_data |-> [signature_detected |-> TRUE, stamp_detected |-> FALSE]]}

-----------------------------------------------------------------------------
(* The state *)

VARIABLES
    pc,               \* where the request (or the direct call) stands
    caller,           \* "upload_document", or "test" for a direct call
    vlm_ready,        \* VLMProcessor.ready
    llm_ready,        \* LLMReasoner.ready
    uploads,          \* the files under the upload directory
    filename,         \* file.filename of the request
    document_type,    \* document_type of the request
    file_path,        \* result of save_file
    text,             \* result of pytesseract.image_to_string
    layout_data,      \* result of _extract_layout_features
    structured_data,  \* result of _process_with_layoutlm
    extracted_data,   \* result of extract_document_data
    prompt,           \* result of _create_analysis_prompt
    llm_response,     \* result of _query_ollama
    analysis,         \* result of analyze_document
    response,         \* the HTTP response of the request
    exc,              \* the exception a direct call ended with
    log,              \* the steps run so far for the request, with their outcome
    heard,            \* what the services outside the handler gave the request
    waiting           \* the locals of the request that is suspended at an await

vars ==
    <<pc, caller, vlm_ready, llm_ready, uploads, filename, document_type, file_path,
      text, layout_data, structured_data, extracted_data, prompt, llm_response,
      analysis, response, exc, log, heard, waiting>>

\* The steps of a request in the order upload_document, extract_document_data
\* and analyze_document call them.
PipelineOrder ==
    <<"validate", "save", "load", "ocr", "layout", "layoutlm", "fields",
      "prompt", "query", "parse", "respond">>

\* A step ends "ok", or "caught" (it raised and its own function caught the
\* exception and returned), or "raised" (the exception left its function).
Logged(step, outcome) ==
    Append(log, [step |-> step, outcome |-> outcome])

\* An exception e leaves the step `step`: under upload_document the except
\* clause of the handler turns it into the response; in a direct call it
\* reaches the caller.
Raise(step, e) ==
    /\ log' = Logged(step, "raised")
    /\ IF caller = "upload_document"
       THEN /\ pc' = "done"
            /\ response' = error_response(upload_document_except(e))
            /\ exc' = exc
       ELSE /\ pc' = "raised"
            /\ response' = response
            /\ exc' = e

\* The step `step` ends without an exception leaving it.
Continue(step, outcome, next) ==
    /\ log' = Logged(step, outcome)
    /\ pc' = next
    /\ UNCHANGED <<response, exc>>

\* Nothing was given to the request yet. `raised` is the response made from
\* the exception of a failed service; `overlapped` says that the request was
\* in flight while the other one was.
NotHeard ==
    [text |-> << >>, layout_data |-> << >>, structured_data |-> << >>,
     llm_response |-> << >>, raised |-> << >>, overlapped |-> FALSE]

\* The locals of a handler that has not received its request.
IdleRequest ==
    [pc |-> "idle", filename |-> << >>, document_type |-> "", file_path |-> << >>,
     text |-> << >>, layout_data |-> << >>, structured_data |-> << >>,
     extracted_data |-> << >>, prompt |-> << >>, llm_response |-> << >>,
     analysis |-> << >>, response |-> << >>, exc |-> << >>, log |-> << >>,
     heard |-> NotHeard]

\* After construction of the processors (main.py, lines 26-29).
Init ==
    /\ pc = "constructed"
    /\ caller = "upload_document"
    /\ vlm_ready = FALSE
    /\ llm_ready = FALSE
    /\ uploads = {}
    /\ filename = << >>
    /\ document_type = ""
    /\ file_path = << >>
    /\ text = << >>
    /\ layout_data = << >>
    /\ structured_data = << >>
    /\ extracted_data = << >>
    /\ prompt = << >>
    /\ llm_response = << >>
    /\ analysis = << >>
    /\ response = << >>
    /\ exc = << >>
    /\ log = << >>
    /\ heard = NotHeard
    /\ waiting = IdleRequest

\* A test calls analyze_document on a constructed and initialized reasoner.
InitAnalyze ==
    /\ pc = "prompt"
    /\ caller = "test"
    /\ vlm_ready = FALSE
    /\ llm_ready \in BOOLEAN
    /\ uploads = {}
    /\ filename = << >>
    /\ document_type \in RequestTypes
    /\ file_path = << >>
    /\ text = << >>
    /\ layout_data = << >>
    /\ structured_data = << >>
    /\ extracted_data \in DirectData
    /\ prompt = << >>
    /\ llm_response = << >>
    /\ analysis = << >>
    /\ response = << >>
    /\ exc = << >>
    /\ log = << >>
    /\ heard = NotHeard
    /\ waiting = IdleRequest

-----------------------------------------------------------------------------
(* The steps *)

\* startup_event: both initialize() methods catch every exception and set
\* ready to whether the model or the Ollama server could be reached.
StartupEvent ==
    /\ pc = "constructed"
    /\ vlm_ready' \in BOOLEAN
    /\ llm_ready' \in BOOLEAN
    /\ pc' = "idle"
    /\ UNCHANGED <<caller, uploads, filename, document_type, file_path, text,
                   layout_data, structured_data, extracted_data, prompt,
                   llm_response, analysis, response, exc, log>>

\* A POST /upload-document request arrives.
ReceiveUpload ==
    /\ pc = "idle"
    /\ filename' \in FileNames
    /\ document_type' \in RequestTypes
    /\ pc' = "validate"
    /\ UNCHANGED <<caller, vlm_ready, llm_ready, uploads, file_path, text,
                   layout_data, structured_data, extracted_data, prompt,
                   llm_response, analysis, response, exc, log>>

\* A variant of ValidateFile that saves the file before it looks at the name:
\* the refused file is already under the upload directory.
ValidateFile_after_save ==
    /\ pc = "validate"
    /\ \E uuid \in UUIDs :
         uploads' = uploads \cup {save_path(filename, document_type, uuid)}
    /\ IF is_valid_file(filename)
       THEN Continue("validate", "ok", "load")
       ELSE Raise("validate", HTTPException(400, <<"Invalid file type">>))
    /\ UNCHANGED <<caller, vlm_ready, llm_ready, filename, document_type,
                   file_path, text, layout_data, structured_data, extracted_data,
                   prompt, llm_response, analysis>>

\* upload_document, lines 51-53: the HTTPException(400) is raised inside the
\* try block of the handler.
ValidateFile ==
    /\ pc = "validate"
    /\ IF is_valid_file(filename)
       THEN Continue("validate", "ok", "save")
       ELSE Raise("validate", HTTPException(400, <<"Invalid file type">>))
    /\ UNCHANGED <<caller, vlm_ready, llm_ready, uploads, filename, document_type,
                   file_path, text, layout_data, structured_data, extracted_data,
                   prompt, llm_response, analysis>>

\* FileHandler.save_file: makedirs or open fails before the file exists,
\* copyfileobj fails after open created it.
SaveFile ==
    /\ pc = "save"
    /\ \E uuid \in UUIDs, outcome \in {"ok", "makedirs", "copyfileobj"} :
         LET path == save_path(filename, document_type, uuid)
         IN  /\ uploads' = IF outcome = "makedirs" THEN uploads ELSE uploads \cup {path}
             /\ IF outcome = "ok"
                THEN /\ file_path' = path
                     /\ Continue("save", "ok", "load")
                ELSE /\ file_path' = file_path
                     /\ Raise("save", save_file_except(Exception(<<"OSError in ", outcome>>)))
    /\ UNCHANGED <<caller, vlm_ready, llm_ready, filename, document_type, text,
                   layout_data, structured_data, extracted_data, prompt,
                   llm_response, analysis>>

\* extract_document_data, lines 37-42: pdf2image for a path ending in .pdf
\* (it may raise, or return no page), Image.open for any other path.
LoadImage ==
    /\ pc = "load"
    /\ \E outcome \in IF is_pdf_path(file_path)
                      THEN {"ok", "PDFPageCountError", "list index out of range"}
                      ELSE {"ok", "cannot identify image file"} :
         IF outcome = "ok"
         THEN Continue("load", "ok", "ocr")
         ELSE Raise("load", extract_document_data_except(Exception(<<outcome>>)))
    /\ UNCHANGED <<caller, vlm_ready, llm_ready, uploads, filename, document_type,
                   file_path, text, layout_data, structured_data, extracted_data,
                   prompt, llm_response, analysis>>

\* extract_document_data, line 45
RunOCR ==
    /\ pc = "ocr"
    /\ \/ \E t \in Texts :
            /\ text' = t
            /\ Continue("ocr", "ok", "layout")
       \/ /\ text' = text
          /\ Raise("ocr", extract_document_data_except(Exception(<<"TesseractError">>)))
    /\ UNCHANGED <<caller, vlm_ready, llm_ready, uploads, filename, document_type,
                   file_path, layout_data, structured_data, extracted_data, prompt,
                   llm_response, analysis>>

\* extract_document_data, line 48
ExtractLayout ==
    /\ pc = "layout"
    /\ \/ \E signature_detected \in BOOLEAN, stamp_detected \in BOOLEAN :
            /\ layout_data' = _extract_layout_features(signature_detected, stamp_detected)
            /\ Continue("layout", "ok", "layoutlm")
       \/ /\ layout_data' = layout_data
          /\ Raise("layout", extract_document_data_except(Exception(<<"cv2.error">>)))
    /\ UNCHANGED <<caller, vlm_ready, llm_ready, uploads, filename, document_type,
                   file_path, text, structured_data, extracted_data, prompt,
                   llm_response, analysis>>

\* VLMProcessor._process_with_layoutlm: a text without words gives no chunk,
\* and then neither the processor nor the model is called. With chunks, a
\* processor that initialize() left as None raises, and so may the model;
\* the except clause returns the error instead of raising it.
ProcessLayoutLM ==
    /\ pc = "layoutlm"
    /\ LET chunks == chunks_processed(text)
       IN  \/ /\ chunks = 0 \/ vlm_ready
              /\ structured_data' = [confidence_scores |-> IF chunks = 0 THEN 0 ELSE 50,
                                     token_predictions |-> text.words,
                                     chunks_processed  |-> chunks]
              /\ Continue("layoutlm", "ok", "fields")
           \/ /\ chunks > 0
              /\ \E error \in IF vlm_ready THEN {"RuntimeError"}
                              ELSE {"'NoneType' object is not callable"} :
                   structured_data' = _process_with_layoutlm_except(Exception(<<error>>))
              /\ Continue("layoutlm", "caught", "fields")
    /\ UNCHANGED <<caller, vlm_ready, llm_ready, uploads, filename, document_type,
                   file_path, text, layout_data, extracted_data, prompt,
                   llm_response, analysis>>

\* extract_document_data, lines 54-62
ExtractFields ==
    /\ pc = "fields"
    /\ extracted_data' = extracted_data_of(text, layout_data, structured_data, document_type)
    /\ Continue("fields", "ok", "prompt")
    /\ UNCHANGED <<caller, vlm_ready, llm_ready, uploads, filename, document_type,
                   file_path, text, layout_data, structured_data, prompt,
                   llm_response, analysis>>

\* analyze_document, line 35
CreatePrompt ==
    /\ pc = "prompt"
    /\ LET made == _create_analysis_prompt(extracted_data, document_type)
       IN  IF made.ok
           THEN /\ prompt' = made.value
                /\ Continue("prompt", "ok", "query")
           ELSE /\ prompt' = prompt
                /\ Raise("prompt", analyze_document_except(Exception(made.value)))
    /\ UNCHANGED <<caller, vlm_ready, llm_ready, uploads, filename, document_type,
                   file_path, text, layout_data, structured_data, extracted_data,
                   llm_response, analysis>>

\* A variant of QueryOllama that posts again when the exchange fails.
QueryOllama_retry(replies) ==
    /\ pc = "query"
    /\ \/ \E reply \in replies :
            /\ llm_response' = reply
            /\ Continue("query", "ok", "parse")
       \/ /\ llm_response' = llm_response
          /\ Continue("query", "caught", "query")
    /\ UNCHANGED <<caller, vlm_ready, llm_ready, uploads, filename, document_type,
                   file_path, text, layout_data, structured_data, extracted_data,
                   prompt, analysis>>

\* A variant of QueryOllama in which analyze_document answers a failed
\* exchange with the fallback analysis.
QueryOllama_fallback(replies) ==
    /\ pc = "query"
    /\ \/ \E reply \in replies :
            /\ llm_response' = reply
            /\ analysis' = analysis
            /\ Continue("query", "ok", "parse")
       \/ /\ llm_response' = llm_response
          /\ analysis' = _create_fallback_response(extracted_data, document_type)
          /\ log' = Logged("query", "raised")
          /\ pc' = IF caller = "upload_document" THEN "respond" ELSE "returned"
          /\ UNCHANGED <<response, exc>>
    /\ UNCHANGED <<caller, vlm_ready, llm_ready, uploads, filename, document_type,
                   file_path, text, layout_data, structured_data, extracted_data,
                   prompt>>

\* analyze_document, line 38, and _query_ollama: one POST; the server
\* answers with one of `replies`, or the exchange fails and the exception
\* passes through both except clauses.
QueryOllama(replies) ==
    /\ pc = "query"
    /\ \/ \E reply \in replies :
            /\ llm_response' = reply
            /\ Continue("query", "ok", "parse")
       \/ \E failure \in QueryFailures :
            /\ llm_response' = llm_response
            /\ Raise("query", analyze_document_except(_query_ollama_except(Exception(failure))))
    /\ UNCHANGED <<caller, vlm_ready, llm_ready, uploads, filename, document_type,
                   file_path, text, layout_data, structured_data, extracted_data,
                   prompt, analysis>>

\* analyze_document, lines 41-43
ParseResponse ==
    /\ pc = "parse"
    /\ analysis' = _parse_llm_response(llm_response, document_type, extracted_data)
    /\ Continue("parse",
                IF llm_response.kind = "str" THEN "ok" ELSE "caught",
                IF caller = "upload_document" THEN "respond" ELSE "returned")
    /\ UNCHANGED <<caller, vlm_ready, llm_ready, uploads, filename, document_type,
                   file_path, text, layout_data, structured_data, extracted_data,
                   prompt, llm_response>>

\* A variant of SendResponse that reports the stored file name.
SendResponse_stored_name ==
    /\ pc = "respond"
    /\ \E now \in Clock :
         response' = success_response(document_type, file_path.name, now, analysis)
    /\ pc' = "done"
    /\ log' = Logged("respond", "ok")
    /\ UNCHANGED <<caller, vlm_ready, llm_ready, uploads, filename, document_type,
                   file_path, text, layout_data, structured_data, extracted_data,
                   prompt, llm_response, analysis, exc>>

\* upload_document, lines 65-73
SendResponse ==
    /\ pc = "respond"
    /\ \E now \in Clock :
         response' = success_response(document_type, filename, now, analysis)
    /\ pc' = "done"
    /\ log' = Logged("respond", "ok")
    /\ UNCHANGED <<caller, vlm_ready, llm_ready, uploads, filename, document_type,
                   file_path, text, layout_data, structured_data, extracted_data,
                   prompt, llm_response, analysis, exc>>

Next ==
    \/ StartupEvent /\ UNCHANGED <<heard, waiting>>
    \/ ReceiveUpload /\ UNCHANGED <<heard, waiting>>
    \/ ValidateFile /\ UNCHANGED <<heard, waiting>>
    \/ SaveFile /\ UNCHANGED <<heard, waiting>>
    \/ LoadImage /\ UNCHANGED <<heard, waiting>>
    \/ RunOCR /\ UNCHANGED <<heard, waiting>>
    \/ ExtractLayout /\ UNCHANGED <<heard, waiting>>
    \/ ProcessLayoutLM /\ UNCHANGED <<heard, waiting>>
    \/ ExtractFields /\ UNCHANGED <<heard, waiting>>
    \/ CreatePrompt /\ UNCHANGED <<heard, waiting>>
    \/ QueryOllama(UploadReplies) /\ UNCHANGED <<heard, waiting>>
    \/ ParseResponse /\ UNCHANGED <<heard, waiting>>
    \/ SendResponse /\ UNCHANGED <<heard, waiting>>

\* One upload_document request, from the start of the server to its response.
Spec ==
    Init /\ [][Next]_vars

NextAnalyze ==
    \/ CreatePrompt /\ UNCHANGED <<heard, waiting>>
    \/ QueryOllama(Replies) /\ UNCHANGED <<heard, waiting>>
    \/ ParseResponse /\ UNCHANGED <<heard, waiting>>

\* One direct call of analyze_document, as in tests/test_pipeline.py.
SpecAnalyze ==
    InitAnalyze /\ [][NextAnalyze]_vars

-----------------------------------------------------------------------------
(* Two requests on one event loop *)

\* upload_document is a coroutine: file, document_type, file_path,
\* extracted_data, analysis_result and response are locals of its frame, text,
\* layout_data and structured_data of the frame of extract_document_data,
\* prompt, llm_response and analysis of the frame of analyze_document. The
\* processors and the file handler are module globals (main.py, lines 27-29),
\* one for all requests, and so is the upload directory.

\* The event loop may run another handler where one awaits (main.py, lines 56,
\* 59, 62; vlm_processor.py, line 51; llm_reasoner.py, line 38), before it
\* starts and after it ends. Lines 45 and 48 of vlm_processor.py follow each
\* other without an await.
SwitchPoints ==
    {"idle", "validate", "save", "load", "layoutlm", "fields", "prompt", "query",
     "parse", "respond", "done"}

InFlight(at) ==
    at \notin {"constructed", "idle", "done"}

\* A variant of Switch in which the reply of the LLM server is kept on the
\* reasoner, one for all requests, and not in the frame of analyze_document.
Switch_shared_reply ==
    /\ pc \in SwitchPoints
    /\ LET both == InFlight(pc) /\ InFlight(waiting.pc)
       IN  /\ waiting' = [pc |-> pc, filename |-> filename,
                          document_type |-> document_type, file_path |-> file_path,
                          text |-> text, layout_data |-> layout_data,
                          structured_data |-> structured_data,
                          extracted_data |-> extracted_data, prompt |-> prompt,
                          llm_response |-> llm_response, analysis |-> analysis,
                          response |-> response, exc |-> exc, log |-> log,
                          heard |-> [heard EXCEPT !.overlapped = @ \/ both]]
           /\ heard' = [waiting.heard EXCEPT !.overlapped = @ \/ both]
    /\ pc' = waiting.pc
    /\ filename' = waiting.filename
    /\ document_type' = waiting.document_type
    /\ file_path' = waiting.file_path
    /\ text' = waiting.text
    /\ layout_data' = waiting.layout_data
    /\ structured_data' = waiting.structured_data
    /\ extracted_data' = waiting.extracted_data
    /\ prompt' = waiting.prompt
    /\ analysis' = waiting.analysis
    /\ response' = waiting.response
    /\ exc' = waiting.exc
    /\ log' = waiting.log
    /\ UNCHANGED <<caller, vlm_ready, llm_ready, uploads, llm_response>>

\* The event loop suspends the running handler at an await and resumes the
\* other one: each frame keeps its locals, the globals stay as they are.
Switch ==
    /\ pc \in SwitchPoints
    /\ LET both == InFlight(pc) /\ InFlight(waiting.pc)
       IN  /\ waiting' = [pc |-> pc, filename |-> filename,
                          document_type |-> document_type, file_path |-> file_path,
                          text |-> text, layout_data |-> layout_data,
                          structured_data |-> structured_data,
                          extracted_data |-> extracted_data, prompt |-> prompt,
                          llm_response |-> llm_response, analysis |-> analysis,
                          response |-> response, exc |-> exc, log |-> log,
                          heard |-> [heard EXCEPT !.overlapped = @ \/ both]]
           /\ heard' = [waiting.heard EXCEPT !.overlapped = @ \/ both]
    /\ pc' = waiting.pc
    /\ filename' = waiting.filename
    /\ document_type' = waiting.document_type
    /\ file_path' = waiting.file_path
    /\ text' = waiting.text
    /\ layout_data' = waiting.layout_data
    /\ structured_data' = waiting.structured_data
    /\ extracted_data' = waiting.extracted_data
    /\ prompt' = waiting.prompt
    /\ llm_response' = waiting.llm_response
    /\ analysis' = waiting.analysis
    /\ response' = waiting.response
    /\ exc' = waiting.exc
    /\ log' = waiting.log
    /\ UNCHANGED <<caller, vlm_ready, llm_ready, uploads>>

\* The steps whose result, or failure, comes from outside the handler: the
\* file system, pdf2image or PIL, tesseract, OpenCV, the LLM server.
Services ==
    {"save", "load", "ocr", "layout", "query"}

\* The running request notes what the step it takes was given.
Hear ==
    /\ heard' =
         [text            |-> IF pc = "ocr" THEN text' ELSE heard.text,
          layout_data     |-> IF pc = "layout" THEN layout_data' ELSE heard.layout_data,
          structured_data |-> IF pc = "layoutlm" THEN structured_data'
                                                ELSE heard.structured_data,
          llm_response    |-> IF pc = "query" THEN llm_response' ELSE heard.llm_response,
          raised          |-> IF pc \in Services /\ pc' = "done" THEN response'
                                                                 ELSE heard.raised,
          overlapped      |-> heard.overlapped]
    /\ UNCHANGED waiting

\* uuid.uuid4() gives a value no earlier call gave: a save that gets as far as
\* open() makes a new file.
FreshUUID ==
    \/ uploads' # uploads
    \/ response' = error_response(upload_document_except(
                       save_file_except(Exception(<<"OSError in ", "makedirs">>))))

\* The uploads, OCR results, layouts and replies of the two requests.
ConcurrentFiles ==
    {<<"l", "e", "a", "s", "e", ".", "p", "d", "f">>,
     <<"n", "o", "t", "e", "s", ".", "t", "x", "t">>}

ConcurrentTypes ==
    {"NOC", "Sale Deed"}

ConcurrentTexts ==
    {t \in Texts : t.words \in {0, 120}}

ConcurrentLayouts ==
    {_extract_layout_features(signature_detected, FALSE) : signature_detected \in BOOLEAN}

ConcurrentReplies ==
    {StrReply(SegRisksSignature \o SegCompletenessLow),
     StrReply(SegRisksShort \o SegCompleteness),
     NullReply}

\* The response to a request whose POST to the LLM server fails to connect.
ConnectionRefused ==
    error_response(upload_document_except(analyze_document_except(
        _query_ollama_except(Exception(<<"ConnectionError">>)))))

NextConcurrent ==
    \/ Switch
    \/ StartupEvent /\ llm_ready' = vlm_ready' /\ Hear
    \/ ReceiveUpload /\ filename' \in ConcurrentFiles
                     /\ document_type' \in ConcurrentTypes /\ Hear
    \/ ValidateFile /\ Hear
    \/ SaveFile /\ FreshUUID /\ Hear
    \/ LoadImage /\ Hear
    \/ RunOCR /\ text' \in ConcurrentTexts \cup {text} /\ Hear
    \/ ExtractLayout /\ layout_data' \in ConcurrentLayouts \cup {layout_data} /\ Hear
    \/ ProcessLayoutLM /\ Hear
    \/ ExtractFields /\ Hear
    \/ CreatePrompt /\ Hear
    \/ QueryOllama(ConcurrentReplies) /\ (pc' = "done" => response' = ConnectionRefused) /\ Hear
    \/ ParseResponse /\ Hear
    \/ SendResponse /\ Hear

\* The server and two upload_document requests that it handles concurrently.
SpecConcurrent ==
    Init /\ [][NextConcurrent]_vars

-----------------------------------------------------------------------------
(* The claims *)

\* Some logged step in `steps` did not end "ok".
Failed(steps) ==
    \E i \in 1..Len(log) : log[i].step \in steps /\ log[i].outcome # "ok"

\* The step `step` was logged with the outcome `outcome`.
Ended(step, outcome) ==
    \E i \in 1..Len(log) : log[i].step = step /\ log[i].outcome = outcome

AllSteps ==
    {PipelineOrder[i] : i \in 1..Len(PipelineOrder)}

\* C1: in every upload_document request the steps run in the fixed order
\* validation, save, extraction (load, OCR, layout, LayoutLM, fields), LLM
\* prompt and query, parsing, response; each runs at most once (so the LLM is
\* queried at most once), and a step runs only after every earlier step has
\* ended without an exception leaving it.
C1_StagesInOrder ==
    /\ Len(log) <= Len(PipelineOrder)
    /\ \A i \in 1..Len(log) : log[i].step = PipelineOrder[i]
    /\ \A i \in 1..(Len(log) - 1) : log[i].outcome # "raised"
    /\ Cardinality({i \in 1..Len(log) : log[i].step = "query"}) <= 1

C1_Witness ==
    /\ pc = "done"
    /\ response.status_code = 200
    /\ Len(log) = Len(PipelineOrder)
    /\ Ended("query", "ok")

\* The request ended in a 500 response.
Answered500 ==
    pc = "done" /\ response.status_code = 500

\* The request ended in a success response whose analysis is the static
\* fallback analysis.
AnsweredFallback ==
    /\ pc = "done"
    /\ response.status_code = 200
    /\ response.content.analysis.benefits = FallbackBenefits
    /\ response.content.analysis.risks = FallbackRisks
    /\ response.content.analysis.completeness_score = 60
    /\ response.content.analysis.confidence_score = 60

\* C2 as stated: a finished request in which any step failed ended in a 500
\* response or in a success response carrying the fallback analysis.
C2_AnyFailureGives500OrFallback ==
    (pc = "done" /\ Failed(AllSteps)) => (Answered500 \/ AnsweredFallback)

\* C2 as amended: a finished request in which a step other than the LayoutLM
\* inference failed ended in a 500 response or in a success response
\* carrying the fallback analysis; a failure of the LayoutLM inference is
\* returned as structured_data.error and does not end the request.
C2_FailureGives500OrFallback ==
    /\ (pc = "done" /\ Failed(AllSteps \ {"layoutlm"}))
          => (Answered500 \/ AnsweredFallback)
    /\ Ended("layoutlm", "caught")
          => /\ DOMAIN structured_data = {"error"}
             /\ pc = "done" => Ended("fields", "ok")
             /\ Ended("fields", "ok") => extracted_data.structured_data = structured_data

C2_Witness ==
    /\ pc = "done"
    /\ Ended("parse", "caught")
    /\ Ended("layoutlm", "ok")
    /\ AnsweredFallback

\* The exchange with the LLM server failed.
QueryFailed ==
    Ended("query", "raised")

\* C3 as stated: when the exchange with the LLM server fails, analyze_document
\* returns the static fallback analysis instead of raising.
C3_QueryFailureReturnsFallback ==
    QueryFailed =>
        /\ pc = "returned"
        /\ analysis = _create_fallback_response(extracted_data, document_type)

\* C3 as amended: when the exchange with the LLM server fails,
\* analyze_document raises Exception("LLM analysis error: Ollama query
\* error: ...") and returns no analysis; it returns the static fallback
\* analysis (the two fixed benefits, the two fixed risks, 60.0, 0.60, the
\* summary of the extracted fields) when parsing the reply raises.
C3_QueryFailureRaises ==
    /\ QueryFailed =>
          /\ pc = "raised"
          /\ analysis = << >>
          /\ exc.type = "Exception"
          /\ SubSeq(exc.detail, 1, 2) = <<"LLM analysis error: ", "Ollama query error: ">>
    /\ Ended("parse", "caught") =>
          /\ pc = "returned"
          /\ analysis.benefits =
               <<<<"D", "o", "c", "u", "m", "e", "n", "t", " ", "u", "p", "l", "o", "a", "d", "e", "d", " ", "s", "u", "c", "c", "e", "s", "s", "f", "u", "l", "l", "y">>,
                 <<"B", "a", "s", "i", "c", " ", "i", "n", "f", "o", "r", "m", "a", "t", "i", "o", "n", " ", "e", "x", "t", "r", "a", "c", "t", "e", "d">>>>
          /\ analysis.risks =
               <<<<"U", "n", "a", "b", "l", "e", " ", "t", "o", " ", "p", "e", "r", "f", "o", "r", "m", " ", "d", "e", "t", "a", "i", "l", "e", "d", " ", "a", "n", "a", "l", "y", "s", "i", "s">>,
                 <<"M", "a", "n", "u", "a", "l", " ", "r", "e", "v", "i", "e", "w", " ", "r", "e", "c", "o", "m", "m", "e", "n", "d", "e", "d">>>>
          /\ analysis.completeness_score = 60
          /\ analysis.confidence_score = 60
          /\ analysis.summary = _create_summary(extracted_data, document_type)

C3_Witness ==
    /\ QueryFailed
    /\ pc = "raised"
    /\ exc.detail = <<"LLM analysis error: ", "Ollama query error: ", "ConnectionError">>

\* C4: a finished request whose file name is empty or has no allowed
\* extension was answered with status 400 and detail "Invalid file type".
C4_InvalidFileGets400 ==
    (pc = "done" /\ ~is_valid_file(filename)) =>
        response = [status_code |-> 400, detail |-> <<"Invalid file type">>]

\* C5: every response that is no error is a JSON object with exactly the
\* keys documentType, filename, uploadTime, analysis and status, with status
\* "success", the document type and the original file name of the request,
\* and the analysis analyze_document returned.
C5_SuccessResponseShape ==
    (pc = "done" /\ response.status_code < 400) =>
        /\ DOMAIN response.content =
             {"documentType", "filename", "uploadTime", "analysis", "status"}
        /\ response.content.status = "success"
        /\ response.content.documentType = document_type
        /\ response.content.filename = filename
        /\ response.content.analysis = analysis

C5_Witness ==
    /\ pc = "done"
    /\ response.status_code = 200
    /\ response.content.filename # file_path.name
    /\ Ended("parse", "ok")

\* A Python str of the model: a sequence of one-character strings.
IsStr(s) ==
    /\ DOMAIN s = 1..Len(s)
    /\ \A i \in 1..Len(s) : s[i] \in STRING /\ Len(s[i]) = 1

\* A list of str.
IsStrList(l) ==
    /\ DOMAIN l = 1..Len(l)
    /\ \A n \in 1..Len(l) : IsStr(l[n])

\* C6: every analysis analyze_document returns, parsed or fallback, has
\* exactly the keys summary, benefits, risks, completeness_score and
\* confidence_score; benefits and risks are lists of strings and the two
\* scores are numbers.
C6_AnalysisShape ==
    pc = "returned" =>
        /\ DOMAIN analysis =
             {"summary", "benefits", "risks", "completeness_score", "confidence_score"}
        /\ IsStrList(analysis.benefits)
        /\ IsStrList(analysis.risks)
        /\ analysis.completeness_score \in Int
        /\ analysis.confidence_score \in Int

C6_Witness ==
    /\ pc = "returned"
    /\ Ended("parse", "caught")
    /\ Len(analysis.risks) = 2

\* The summary keys of each document type, as C7 lists them.
C7_TypeKeys ==
    [r \in {"Rent Agreement"} |->
        {"landlord", "tenant", "propertyAddress", "term", "rentAmount"}]
      @@ [t \in {"Title Deed"} |-> {"owner", "propertyDetails"}]
      @@ [n \in {"NOC"} |-> {"applicant", "purpose"}]

\* C7: for each of the three document types the summary has exactly the keys
\* signaturePresent, stampDutyDetected, documentType and the keys of its
\* type, none of another type, and documentType is the type.
C7_SummaryKeys ==
    pc = "returned" =>
        /\ document_type \in {"Rent Agreement", "Title Deed", "NOC"}
        /\ DOMAIN analysis.summary =
             {"signaturePresent", "stampDutyDetected", "documentType"}
               \cup C7_TypeKeys[document_type]
        /\ analysis.summary.documentType = document_type

C7_Witness ==
    /\ pc = "returned"
    /\ document_type = "NOC"
    /\ "extracted_fields" \in DOMAIN extracted_data
    /\ {"owner", "landlord", "applicant"} \subseteq DOMAIN extracted_data.extracted_fields

\* The extracted field each type-specific summary field shows.
C8_Source ==
    [landlord        |-> "landlord",
     tenant          |-> "tenant",
     propertyAddress |-> "property_address",
     term            |-> "term",
     rentAmount      |-> "rent_amount",
     owner           |-> "owner",
     propertyDetails |-> "property_details",
     applicant       |-> "applicant",
     purpose         |-> "purpose"]

\* C8: each type-specific summary field of a returned analysis, parsed or
\* fallback, is there and equals the extracted field value when that field
\* was extracted, and "Not detected" when it was not.
C8_SummaryValues ==
    pc = "returned" =>
        LET fields == IF "extracted_fields" \in DOMAIN extracted_data
                      THEN extracted_data.extracted_fields
                      ELSE << >>
        IN  \A k \in C7_TypeKeys[document_type] :
              /\ k \in DOMAIN analysis.summary
              /\ analysis.summary[k] = IF C8_Source[k] \in DOMAIN fields
                                       THEN fields[C8_Source[k]]
                                       ELSE "Not detected"

C8_Witness ==
    /\ pc = "returned"
    /\ document_type = "Rent Agreement"
    /\ analysis.summary.propertyAddress = "Flat 4B, Krishna Tower"
    /\ analysis.summary.rentAmount = "$22,000"

\* The layout flag `flag` of the extracted data, FALSE when it is absent.
LayoutFlag(flag) ==
    /\ "layout_data" \in DOMAIN extracted_data
    /\ flag \in DOMAIN extracted_data.layout_data
    /\ extracted_data.layout_data[flag]

\* C9: in every returned analysis summary.signaturePresent is
\* layout_data.signature_detected and summary.stampDutyDetected is
\* layout_data.stamp_detected, FALSE when the flag is absent, whatever the
\* document type and the reply.
C9_SummaryFlags ==
    pc = "returned" =>
        /\ analysis.summary.signaturePresent = LayoutFlag("signature_detected")
        /\ analysis.summary.stampDutyDetected = LayoutFlag("stamp_detected")

C9_Witness ==
    /\ pc = "returned"
    /\ Ended("parse", "ok")
    /\ LayoutFlag("stamp_detected")
    /\ "signature_detected" \notin DOMAIN extracted_data.layout_data
    /\ ~analysis.summary.signaturePresent

\* C10: a returned analysis of a document whose layout data has
\* signature_detected = False and stamp_detected = False has a non-empty
\* risks list, whatever the reply.
C10_RisksNonEmpty ==
    (/\ pc = "returned"
     /\ "layout_data" \in DOMAIN extracted_data
     /\ {"signature_detected", "stamp_detected"} \subseteq DOMAIN extracted_data.layout_data
     /\ ~extracted_data.layout_data.signature_detected
     /\ ~extracted_data.layout_data.stamp_detected)
        => Len(analysis.risks) > 0

-----------------------------------------------------------------------------
(* GET /document-types *)

\* get_document_types: the file formats listed for each document type.
get_document_types ==
    [d \in DocumentTypes |-> {<<".", "p", "d", "f">>, <<".", "j", "p", "g">>, <<".", "p", "n", "g">>}]

-----------------------------------------------------------------------------
(* The claims, continued *)

\* word occurs in s, compared in lower case: word in s.lower()
Mentions(s, word) ==
    \E i \in 1..(Len(s) - Len(word) + 1) :
        \A k \in 1..Len(word) : LowerChar(s[i + k - 1]) = word[k]

\* C11: a returned analysis of a document whose layout data has
\* signature_detected = False has a risk that mentions "signature", whatever
\* the reply.
C11_RisksMentionSignature ==
    (/\ pc = "returned"
     /\ "layout_data" \in DOMAIN extracted_data
     /\ "signature_detected" \in DOMAIN extracted_data.layout_data
     /\ ~extracted_data.layout_data.signature_detected)
        => \E n \in 1..Len(analysis.risks) :
              Mentions(analysis.risks[n], <<"s", "i", "g", "n", "a", "t", "u", "r", "e">>)

\* C13: a file name passes the upload validation if and only if it ends, in
\* lower case, in one of the extensions get_document_types lists for the
\* document type of the request (a type get_document_types lists).
C13_ListedFormatsAreAccepted ==
    (Len(log) >= 1 /\ document_type \in DOMAIN get_document_types) =>
        (Ended("validate", "ok")
            <=> \E ext \in get_document_types[document_type] :
                   endswith(lower(filename), ext))

\* C14: a request whose file name the validation rejected has written no
\* file and has called neither the VLM processor nor the LLM.
C14_RejectedUploadHasNoEffect ==
    (Len(log) >= 1 /\ ~is_valid_file(filename)) =>
        /\ pc = "done"
        /\ uploads = {}
        /\ file_path = << >>
        /\ \A i \in 1..Len(log) : log[i].step = "validate"
        /\ text = << >> /\ layout_data = << >> /\ structured_data = << >>
        /\ extracted_data = << >>
        /\ prompt = << >> /\ llm_response = << >> /\ analysis = << >>

C14_Witness ==
    /\ pc = "done"
    /\ filename = <<"n", "o", "t", "e", "s", ".", "t", "x", "t">>
    /\ response.status_code >= 400

\* C15: in every returned analysis confidence_score is between 0.60 and 0.95
\* and is completeness_score / 100 clamped to that range (in hundredths:
\* min(95, max(60, completeness_score))).
C15_ConfidenceClamped ==
    pc = "returned" =>
        /\ analysis.confidence_score >= 60
        /\ analysis.confidence_score <= 95
        /\ analysis.confidence_score =
             IF analysis.completeness_score < 60 THEN 60
             ELSE IF analysis.completeness_score > 95 THEN 95
             ELSE analysis.completeness_score

C15_Witness ==
    /\ pc = "returned"
    /\ analysis.completeness_score = 40
    /\ analysis.confidence_score = 60

\* The positions of the reply where a rating "COMPLETENESS: <digits>%" starts.
StatedRatings(reply) ==
    {i \in 1..Len(reply) :
        LET at == i + Len(<<"C", "O", "M", "P", "L", "E", "T", "E", "N", "E", "S", "S", ":", " ">>)
        IN  /\ matches_at(reply, i, <<"C", "O", "M", "P", "L", "E", "T", "E", "N", "E", "S", "S", ":", " ">>)
            /\ at <= Len(reply)
            /\ IsDigit(reply[at])
            /\ run_end(reply, at) < Len(reply)
            /\ reply[run_end(reply, at) + 1] = "%"}

\* The percentage of the first rating of the reply.
StatedCompleteness(reply) ==
    LET at == Min(StatedRatings(reply)) + Len(<<"C", "O", "M", "P", "L", "E", "T", "E", "N", "E", "S", "S", ":", " ">>)
    IN  float(SubSeq(reply, at, run_end(reply, at)))

\* The reply has a percentage: a digit followed by "%".
HasPercentage(reply) ==
    \E i \in 1..(Len(reply) - 1) : IsDigit(reply[i]) /\ reply[i + 1] = "%"

\* C16: completeness_score of an analysis parsed from a reply with a rating
\* "COMPLETENESS: <n>%" is n, whatever the other sections hold, and it is the
\* default 75 when the reply has no percentage.
C16_CompletenessIsStatedRating ==
    (pc = "returned" /\ llm_response.kind = "str") =>
        /\ StatedRatings(llm_response.text) # {}
              => analysis.completeness_score = StatedCompleteness(llm_response.text)
        /\ ~HasPercentage(llm_response.text)
              => analysis.completeness_score = 75

\* C17: completeness_score of every returned analysis is a percentage between
\* 0 and 100, so that completeness_score / 100 is within 0 to 1.
C17_CompletenessIsPercentage ==
    pc = "returned" =>
        /\ analysis.completeness_score >= 0
        /\ analysis.completeness_score <= 100

\* The response upload_document gives a request that it handles alone: the
\* steps of the handler composed, on the file name and document type of the
\* request and on what the services gave it.
AloneResponse(name, type, given) ==
    IF ~is_valid_file(name)
    THEN error_response(upload_document_except(HTTPException(400, <<"Invalid file type">>)))
    ELSE IF given.raised # << >>
    THEN given.raised
    ELSE LET data == extracted_data_of(given.text, given.layout_data,
                                       given.structured_data, type)
             made == _create_analysis_prompt(data, type)
         IN  IF ~made.ok
             THEN error_response(upload_document_except(
                      analyze_document_except(Exception(made.value))))
             ELSE success_response(type, name, CHOOSE now \in Clock : TRUE,
                                   _parse_llm_response(given.llm_response, type, data))

AnsweredAsAlone ==
    /\ pc = "done" => response = AloneResponse(filename, document_type, heard)
    /\ waiting.pc = "done" =>
          waiting.response = AloneResponse(waiting.filename, waiting.document_type,
                                           waiting.heard)

\* C12: however the steps of two concurrently handled requests interleave,
\* the response of each is the one it gets when handled alone with the same
\* file, document type and service replies, and once the server has started
\* no step changes the ready flags of the processors.
C12_NoSharedMutableState ==
    /\ []AnsweredAsAlone
    /\ [][pc # "constructed" => UNCHANGED <<vlm_ready, llm_ready>>]_vars

\* Two requests that were in flight together are both answered, with
\* different analyses.
C12_Witness ==
    /\ pc = "done"
    /\ waiting.pc = "done"
    /\ heard.overlapped
    /\ waiting.heard.overlapped
    /\ response.status_code = 200
    /\ waiting.response.status_code = 200
    /\ response.content.analysis # waiting.response.content.analysis
    /\ heard.llm_response # waiting.heard.llm_response

====
